---- MODULE Spec2Model ----
(***************************************************************************)
(* Model of iced_palette: fuzzy_match, is_word_boundary and                *)
(* filter_commands (src/src/search.rs) over Command values                 *)
(* (src/src/command.rs), the helpers and the two render_highlighted_text   *)
(* (src/src/helpers.rs, src/src/palette.rs), the navigation and shortcut   *)
(* functions (src/src/subscription.rs) and PaletteState                    *)
(* (src/src/palette.rs).                                                   *)
(*                                                                         *)
(* Strings are sequences of characters.  Rust indexes from 0; a TLA+       *)
(* sequence from 1, so chars[idx] of the source is chars[idx + 1] here and *)
(* every index the model stores or reports is the source's 0-based index.  *)
(* An Option is None == <<>> or Some(x) == <<x>>.  A call that panics      *)
(* (an out-of-bounds slice index) yields the outcome [kind |-> "Panic"].   *)
(***************************************************************************)
EXTENDS Integers, Sequences, FiniteSets, TLC

VARIABLES
    pc,                             \* where the calls stand
    pattern, target, result,        \* one call of fuzzy_match
    query, commands, filtered,      \* one call of filter_commands
    selected_display_index, index_result, count_result,
                        \* get_filtered_command_index, get_filtered_count
    text_str, indices, rendered,    \* one call of render_highlighted_text
    current_index, item_count, nav_result,
                                    \* one call of navigate_up or navigate_down
    menu, collected,                \* one call of collect_shortcuts
    key, modifiers, matched,        \* one call of find_matching_shortcut
    state, trace, called_closed     \* a PaletteState and the calls made on it

matcher_vars == <<pattern, target, result>>
filter_vars == <<query, commands, filtered>>
helper_vars == <<selected_display_index, index_result, count_result>>
render_vars == <<text_str, indices, rendered>>
nav_vars == <<current_index, item_count, nav_result>>
shortcut_vars == <<menu, collected>>
find_vars == <<key, modifiers, matched>>
palette_vars == <<state, trace, called_closed>>

vars == <<pc, matcher_vars, filter_vars, helper_vars, render_vars, nav_vars,
          shortcut_vars, find_vars, palette_vars>>

(***************************************************************************)
(* Bounds of the model.                                                    *)
(***************************************************************************)
MaxPatternLen == 2
MaxTargetLen == 3
MaxCommands == 2
MaxIndices == 2
MaxIndexValue == 4
MaxCurrentIndex == 7
MaxItemCount == 6
MaxMenuCommands == 2
MaxRows == 2
MaxDepth == 2

(***************************************************************************)
(* Characters.  Each stands for a class the code distinguishes:            *)
(*   "a"       a lowercase letter                                          *)
(*   "A"       an uppercase letter, lowercase "a"                          *)
(*   "_"       one of the separators of is_word_boundary                   *)
(*   "U0130"   LATIN CAPITAL LETTER I WITH DOT ABOVE: uppercase, and the   *)
(*             one character whose lowercase mapping is two characters,    *)
(*             "i" followed by U+0307 ("i" is lowercase; it arises only    *)
(*             from this mapping)                                          *)
(*   "U0307"   COMBINING DOT ABOVE: neither lowercase nor uppercase        *)
(* Characters whose folding depends on their neighbours (the final sigma)  *)
(* are not among the inputs.  Scores stay far inside the range of i32 for  *)
(* texts of these lengths, so score is an unbounded integer here.          *)
(***************************************************************************)
Alphabet == {"a", "A", "_", "U0130", "U0307"}

Separators == {"_", "-", " ", "/", "\\", "."}

\* char::to_lowercase: the lowercase mapping of one character, a sequence.
char_to_lowercase(c) ==
    CASE c = "A" -> <<"a">>
      [] c = "S" -> <<"s">>
      [] c = "U0130" -> <<"i", "U0307">>
      [] OTHER -> <<c>>

\* char::is_lowercase
is_lowercase(c) == c \in {"a", "i"}

\* char::is_uppercase
is_uppercase(c) == c \in {"A", "U0130"}

\* str::to_lowercase followed by .chars().collect(): the concatenation of the
\* characters' lowercase mappings.
RECURSIVE to_lowercase(_)
to_lowercase(s) ==
    IF s = <<>> THEN <<>>
    ELSE char_to_lowercase(Head(s)) \o to_lowercase(Tail(s))

None == <<>>
Some(x) == <<x>>

\* All strings of at most n characters.
Strings(n) == UNION {[1..k -> Alphabet] : k \in 0..n}

(***************************************************************************)
(* is_word_boundary(chars, idx).  The reads chars[idx - 1] and chars[idx]  *)
(* both happen before any test when idx # 0; either panics when the index  *)
(* is not below chars.len().                                               *)
(***************************************************************************)
is_word_boundary_panics(chars, idx) ==
    idx # 0 /\ (idx - 1 >= Len(chars) \/ idx >= Len(chars))

\* Mutant: the camelCase test looks at the current character alone.
is_word_boundary_any_uppercase(chars, idx) ==
    IF idx = 0 THEN TRUE
    ELSE LET prev == chars[idx]
             curr == chars[idx + 1]
         IN  IF prev \in Separators THEN TRUE
             ELSE IF is_uppercase(curr) THEN TRUE
             ELSE FALSE

is_word_boundary(chars, idx) ==
    IF idx = 0 THEN TRUE
    ELSE LET prev == chars[idx]
             curr == chars[idx + 1]
         IN  IF prev \in Separators THEN TRUE
             ELSE IF is_lowercase(prev) /\ is_uppercase(curr) THEN TRUE
             ELSE FALSE

(***************************************************************************)
(* The loop of fuzzy_match over target_lower.iter().enumerate().  st is    *)
(* the loop's state: indices, score, pattern_idx, last_match_idx, and      *)
(* panicked once is_word_boundary has indexed out of bounds.               *)
(***************************************************************************)
\* Mutant: the consecutive-match bonus is subtracted instead of added.
MatchStep_consecutive_penalised(pattern_lower, target_chars, target_idx, st) ==
    IF is_word_boundary_panics(target_chars, target_idx)
    THEN [st EXCEPT !.panicked = TRUE]
    ELSE LET start_bonus == IF target_idx = 0 THEN 8 ELSE 0
             boundary_bonus ==
                 IF is_word_boundary(target_chars, target_idx) THEN 10 ELSE 0
             consecutive ==
                 IF st.last_match_idx = None THEN 0
                 ELSE LET last_idx == st.last_match_idx[1]
                      IN  IF target_idx = last_idx + 1 THEN 0 - 5
                          ELSE 0 - (target_idx - last_idx - 1)
         IN  [indices |-> Append(st.indices, target_idx),
              score |-> st.score + start_bonus + boundary_bonus + consecutive,
              pattern_idx |-> st.pattern_idx + 1,
              last_match_idx |-> Some(target_idx),
              panicked |-> FALSE]

MatchStep(pattern_lower, target_chars, target_idx, st) ==
    IF is_word_boundary_panics(target_chars, target_idx)
    THEN [st EXCEPT !.panicked = TRUE]
    ELSE LET start_bonus == IF target_idx = 0 THEN 8 ELSE 0
             boundary_bonus ==
                 IF is_word_boundary(target_chars, target_idx) THEN 10 ELSE 0
             consecutive ==
                 IF st.last_match_idx = None THEN 0
                 ELSE LET last_idx == st.last_match_idx[1]
                      IN  IF target_idx = last_idx + 1 THEN 5
                          ELSE 0 - (target_idx - last_idx - 1)
         IN  [indices |-> Append(st.indices, target_idx),
              score |-> st.score + start_bonus + boundary_bonus + consecutive,
              pattern_idx |-> st.pattern_idx + 1,
              last_match_idx |-> Some(target_idx),
              panicked |-> FALSE]

\* Mutant: a matching character is passed over when the next character of the
\* text matches too, so the last of a run is taken instead of the first.
RECURSIVE MatchLoop_takes_last_of_run(_, _, _, _, _)
MatchLoop_takes_last_of_run(pattern_lower, target_chars, target_lower, target_idx, st) ==
    IF st.panicked \/ target_idx >= Len(target_lower) THEN st
    ELSE IF st.pattern_idx >= Len(pattern_lower) THEN st
    ELSE IF /\ target_lower[target_idx + 1] = pattern_lower[st.pattern_idx + 1]
            /\ ~ (/\ target_idx + 1 < Len(target_lower)
                  /\ target_lower[target_idx + 2] = pattern_lower[st.pattern_idx + 1])
         THEN MatchLoop_takes_last_of_run(
                  pattern_lower, target_chars, target_lower, target_idx + 1,
                  MatchStep(pattern_lower, target_chars, target_idx, st))
         ELSE MatchLoop_takes_last_of_run(
                  pattern_lower, target_chars, target_lower, target_idx + 1, st)

RECURSIVE MatchLoop(_, _, _, _, _)
MatchLoop(pattern_lower, target_chars, target_lower, target_idx, st) ==
    IF st.panicked \/ target_idx >= Len(target_lower) THEN st
    ELSE IF st.pattern_idx >= Len(pattern_lower) THEN st
    ELSE IF target_lower[target_idx + 1] = pattern_lower[st.pattern_idx + 1]
         THEN MatchLoop(pattern_lower, target_chars, target_lower, target_idx + 1,
                        MatchStep(pattern_lower, target_chars, target_idx, st))
         ELSE MatchLoop(pattern_lower, target_chars, target_lower, target_idx + 1, st)

\* Mutant: pattern and text are compared as given, without lowercase folding.
fuzzy_match_scan_case_sensitive(p, t) ==
    LET st == MatchLoop(p, t, t, 0,
                        [indices |-> <<>>, score |-> 0, pattern_idx |-> 0,
                         last_match_idx |-> None, panicked |-> FALSE])
    IN  IF st.panicked THEN [kind |-> "Panic"]
        ELSE IF st.pattern_idx = Len(p)
             THEN [kind |-> "Some", score |-> st.score + 10,
                   indices |-> st.indices]
             ELSE [kind |-> "None"]

\* fuzzy_match past its empty-pattern return: the scan and the final test.
fuzzy_match_scan(p, t) ==
    LET pattern_lower == to_lowercase(p)
        target_chars == t
        target_lower == to_lowercase(t)
        st == MatchLoop(pattern_lower, target_chars, target_lower, 0,
                        [indices |-> <<>>, score |-> 0, pattern_idx |-> 0,
                         last_match_idx |-> None, panicked |-> FALSE])
    IN  IF st.panicked THEN [kind |-> "Panic"]
        ELSE IF st.pattern_idx = Len(pattern_lower)
             THEN [kind |-> "Some", score |-> st.score + 10,
                   indices |-> st.indices]
             ELSE [kind |-> "None"]

\* Mutant: no early return for the empty pattern.
fuzzy_match_no_empty_case(p, t) == fuzzy_match_scan(p, t)

\* fuzzy_match(pattern, target): Some(FuzzyMatch), None, or a panic.
fuzzy_match(p, t) ==
    IF p = <<>> THEN [kind |-> "Some", score |-> 0, indices |-> <<>>]
    ELSE fuzzy_match_scan(p, t)

(***************************************************************************)
(* filter_commands.  A command is the fields filter_commands reads: name,  *)
(* description (an Option) and keywords.  A FuzzyMatch is [score, indices] *)
(* and an entry of the returned Vec is <<original index, FuzzyMatch>>.     *)
(***************************************************************************)
FuzzyMatchOf(r) == [score |-> r.score, indices |-> r.indices]

\* Iterator::max_by_key(|m| m.score) over the sequence ms: None when ms is
\* empty, else the last element among those of maximal score.
\* Mutant: the first element of maximal score is kept instead of the last.
RECURSIVE max_by_key_fold_keeps_first(_, _, _)
max_by_key_fold_keeps_first(ms, k, best) ==
    IF k > Len(ms) THEN best
    ELSE max_by_key_fold_keeps_first(ms, k + 1,
                                     IF ms[k].score > best.score THEN ms[k] ELSE best)

RECURSIVE max_by_key_fold(_, _, _)
max_by_key_fold(ms, k, best) ==
    IF k > Len(ms) THEN best
    ELSE max_by_key_fold(ms, k + 1,
                         IF ms[k].score >= best.score THEN ms[k] ELSE best)

max_by_key(ms) ==
    IF ms = <<>> THEN None ELSE Some(max_by_key_fold(ms, 2, ms[1]))

\* filter_map / flatten: the matches among a sequence of fuzzy_match outcomes.
RECURSIVE matches_of(_)
matches_of(rs) ==
    IF rs = <<>> THEN <<>>
    ELSE IF Head(rs).kind = "Some"
         THEN <<FuzzyMatchOf(Head(rs))>> \o matches_of(Tail(rs))
         ELSE matches_of(Tail(rs))

\* The fuzzy_match calls the closure makes for one command, in its order:
\* the name, the description when present, then each keyword.
field_results(q, cmd) ==
    [name |-> fuzzy_match(q, cmd.name),
     desc |-> IF cmd.description = None THEN [kind |-> "None"]
              ELSE fuzzy_match(q, cmd.description[1]),
     keywords |-> [k \in 1..Len(cmd.keywords) |-> fuzzy_match(q, cmd.keywords[k])]]

\* Mutant: the first field that matched is taken (name, then description,
\* then the best keyword) instead of the best-scoring one.
command_best_first_match(q, cmd) ==
    LET fr == field_results(q, cmd)
        keyword_match == max_by_key(matches_of(fr.keywords))
        keyword_result == IF keyword_match = None THEN [kind |-> "None"]
                          ELSE [kind |-> "Some",
                                score |-> keyword_match[1].score,
                                indices |-> keyword_match[1].indices]
        found == matches_of(<<fr.name, fr.desc, keyword_result>>)
    IN  IF \/ fr.name.kind = "Panic"
           \/ fr.desc.kind = "Panic"
           \/ \E k \in 1..Len(fr.keywords) : fr.keywords[k].kind = "Panic"
        THEN [kind |-> "Panic"]
        ELSE [kind |-> "Ok",
              best |-> IF found = <<>> THEN None ELSE Some(found[1])]

\* The closure of filter_map for one command: the best match of its fields
\* (an Option), or a panic when one of its fuzzy_match calls panics.
command_best(q, cmd) ==
    LET fr == field_results(q, cmd)
        keyword_match == max_by_key(matches_of(fr.keywords))
        keyword_result == IF keyword_match = None THEN [kind |-> "None"]
                          ELSE [kind |-> "Some",
                                score |-> keyword_match[1].score,
                                indices |-> keyword_match[1].indices]
    IN  IF \/ fr.name.kind = "Panic"
           \/ fr.desc.kind = "Panic"
           \/ \E k \in 1..Len(fr.keywords) : fr.keywords[k].kind = "Panic"
        THEN [kind |-> "Panic"]
        ELSE [kind |-> "Ok",
              best |-> max_by_key(matches_of(<<fr.name, fr.desc, keyword_result>>))]

\* The entries collected from the commands from position i on.
RECURSIVE collect_matches(_, _, _)
collect_matches(q, cmds, i) ==
    IF i > Len(cmds) THEN <<>>
    ELSE LET b == command_best(q, cmds[i]).best
         IN  (IF b = None THEN <<>> ELSE << <<i - 1, b[1]>> >>)
             \o collect_matches(q, cmds, i + 1)

\* matches.sort_by(|a, b| b.1.score.cmp(&a.1.score)): a stable sort by
\* descending score.  Each entry goes behind the entries, already placed, whose
\* score is not lower.
\* Mutant: an entry goes in front of the placed entries of equal score.
insert_by_score_before_ties(sorted, e) ==
    LET n == Cardinality({k \in 1..Len(sorted) : sorted[k][2].score > e[2].score})
    IN  SubSeq(sorted, 1, n) \o <<e>> \o SubSeq(sorted, n + 1, Len(sorted))

insert_by_score(sorted, e) ==
    LET n == Cardinality({k \in 1..Len(sorted) : sorted[k][2].score >= e[2].score})
    IN  SubSeq(sorted, 1, n) \o <<e>> \o SubSeq(sorted, n + 1, Len(sorted))

RECURSIVE sort_by_score_fold(_, _, _)
sort_by_score_fold(ms, k, sorted) ==
    IF k > Len(ms) THEN sorted
    ELSE sort_by_score_fold(ms, k + 1, insert_by_score(sorted, ms[k]))

\* Mutant: the collected entries are returned without being sorted.
sort_by_score_skipped(ms) == ms

sort_by_score(ms) == sort_by_score_fold(ms, 1, <<>>)

\* Mutant: an empty query lists nothing instead of every command.
filter_commands_empty_query_lists_nothing(q, cmds) ==
    IF q = <<>>
    THEN [kind |-> "Ok", entries |-> <<>>]
    ELSE IF \E i \in 1..Len(cmds) : command_best(q, cmds[i]).kind = "Panic"
         THEN [kind |-> "Panic"]
         ELSE [kind |-> "Ok",
               entries |-> sort_by_score(collect_matches(q, cmds, 1))]

\* filter_commands(query, commands): the returned Vec, or a panic.
filter_commands(q, cmds) ==
    IF q = <<>>
    THEN [kind |-> "Ok",
          entries |-> [i \in 1..Len(cmds) |->
                         <<i - 1, [score |-> 0, indices |-> <<>>]>>]]
    ELSE IF \E i \in 1..Len(cmds) : command_best(q, cmds[i]).kind = "Panic"
         THEN [kind |-> "Panic"]
         ELSE [kind |-> "Ok",
               entries |-> sort_by_score(collect_matches(q, cmds, 1))]

(***************************************************************************)
(* Inputs of filter_commands: queries and command fields chosen so that    *)
(* fields match and do not match, tie with different indices, score        *)
(* differently, and fold to more characters than they have.                *)
(***************************************************************************)
Queries == {<<>>, <<"a">>, <<"_">>, <<"_", "a">>}

Names == {<<"a">>, <<"_", "a">>, <<"_", "_", "a">>, <<"U0130", "a">>}

Descriptions == {None, Some(<<"_", "_", "a">>)}

KeywordLists ==
    {<<>>, << <<"_", "a">>, <<"_", "_", "a">> >>, << <<"_", "_", "a">>, <<"_", "a">> >>}

CommandPool ==
    [name : Names, description : Descriptions, keywords : KeywordLists]

CommandLists(n) == UNION {[1..k -> CommandPool] : k \in 0..n}

(***************************************************************************)
(* Specification of one call of fuzzy_match on any inputs within bounds.   *)
(***************************************************************************)
NotCalled == [kind |-> "NotCalled"]

\* The variables of the calls a specification does not make.
MatcherIdle == pattern = <<>> /\ target = <<>> /\ result = NotCalled
FilterIdle == query = <<>> /\ commands = <<>> /\ filtered = NotCalled
HelperIdle ==
    selected_display_index = 0 /\ index_result = NotCalled /\ count_result = NotCalled
RenderIdle == text_str = <<>> /\ indices = <<>> /\ rendered = NotCalled
NavIdle == current_index = 0 /\ item_count = 0 /\ nav_result = NotCalled
ShortcutIdle == menu = <<>> /\ collected = NotCalled
FindIdle == key = [kind |-> "Unidentified"] /\ modifiers = "" /\ matched = NotCalled
PaletteIdle ==
    /\ state = [open |-> FALSE, query |-> <<>>, selected_index |-> 0,
                submenu_path |-> <<>>]
    /\ trace = <<>>
    /\ called_closed = FALSE

Init ==
    /\ pattern \in Strings(MaxPatternLen)
    /\ target \in Strings(MaxTargetLen)
    /\ result = NotCalled
    /\ pc = "call"
    /\ FilterIdle /\ HelperIdle /\ RenderIdle /\ NavIdle /\ ShortcutIdle
    /\ FindIdle /\ PaletteIdle

CallFuzzyMatch ==
    /\ pc = "call"
    /\ result' = fuzzy_match(pattern, target)
    /\ pc' = "done"
    /\ UNCHANGED <<pattern, target, filter_vars, helper_vars, render_vars,
                   nav_vars, shortcut_vars, find_vars, palette_vars>>

Next == CallFuzzyMatch

Spec == Init /\ [][Next]_vars

(***************************************************************************)
(* Specification of one call of filter_commands.                           *)
(***************************************************************************)
InitFilter ==
    /\ pc = "call"
    /\ query \in Queries
    /\ commands \in CommandLists(MaxCommands)
    /\ filtered = NotCalled
    /\ MatcherIdle /\ HelperIdle /\ RenderIdle /\ NavIdle /\ ShortcutIdle
    /\ FindIdle /\ PaletteIdle

CallFilterCommands ==
    /\ pc = "call"
    /\ filtered' = filter_commands(query, commands)
    /\ pc' = "done"
    /\ UNCHANGED <<query, commands, matcher_vars, helper_vars, render_vars,
                   nav_vars, shortcut_vars, find_vars, palette_vars>>

NextFilter == CallFilterCommands

SpecFilter == InitFilter /\ [][NextFilter]_vars

(***************************************************************************)
(* get_filtered_command_index and get_filtered_count (helpers.rs).  Each   *)
(* calls filter_commands, whose panic it passes on.                        *)
(***************************************************************************)
\* Mutant: the display index is returned in place of the entry's original index.
get_filtered_command_index_returns_row(q, cmds, i) ==
    LET f == filter_commands(q, cmds)
    IN  IF f.kind = "Panic" THEN [kind |-> "Panic"]
        ELSE [kind |-> "Ok",
              value |-> IF i < Len(f.entries) THEN Some(i) ELSE None]

\* filtered.get(selected_display_index).map(|(idx, _)| *idx)
get_filtered_command_index(q, cmds, i) ==
    LET f == filter_commands(q, cmds)
    IN  IF f.kind = "Panic" THEN [kind |-> "Panic"]
        ELSE [kind |-> "Ok",
              value |-> IF i < Len(f.entries) THEN Some(f.entries[i + 1][1]) ELSE None]

\* filter_commands(query, commands).len()
get_filtered_count(q, cmds) ==
    LET f == filter_commands(q, cmds)
    IN  IF f.kind = "Panic" THEN [kind |-> "Panic"]
        ELSE [kind |-> "Ok", value |-> Len(f.entries)]

\* The commands without keywords.
PlainCommandPool == {c \in CommandPool : c.keywords = <<>>}

PlainCommandLists(n) == UNION {[1..k -> PlainCommandPool] : k \in 0..n}

(***************************************************************************)
(* Specification of the two helpers called, in either order, on the same   *)
(* query and commands.                                                     *)
(***************************************************************************)
InitHelpers ==
    /\ pc = "call"
    /\ query \in Queries
    /\ commands \in PlainCommandLists(MaxCommands)
    /\ filtered = NotCalled
    /\ selected_display_index \in 0..MaxCommands
    /\ index_result = NotCalled
    /\ count_result = NotCalled
    /\ MatcherIdle /\ RenderIdle /\ NavIdle /\ ShortcutIdle
    /\ FindIdle /\ PaletteIdle

CallGetFilteredCommandIndex ==
    /\ index_result = NotCalled
    /\ index_result' = get_filtered_command_index(query, commands, selected_display_index)
    /\ pc' = IF count_result = NotCalled THEN pc ELSE "done"
    /\ UNCHANGED <<selected_display_index, count_result, matcher_vars, filter_vars,
                   render_vars, nav_vars, shortcut_vars, find_vars, palette_vars>>

CallGetFilteredCount ==
    /\ count_result = NotCalled
    /\ count_result' = get_filtered_count(query, commands)
    /\ pc' = IF index_result = NotCalled THEN pc ELSE "done"
    /\ UNCHANGED <<selected_display_index, index_result, matcher_vars, filter_vars,
                   render_vars, nav_vars, shortcut_vars, find_vars, palette_vars>>

NextHelpers == CallGetFilteredCommandIndex \/ CallGetFilteredCount

SpecHelpers == InitHelpers /\ [][NextHelpers]_vars

(***************************************************************************)
(* render_highlighted_text, in palette.rs and in helpers.rs.  The outcome  *)
(* is the plain text (no indices), the spans of the Rich text, each        *)
(* [text, highlighted], or a panic of a slice out of the bounds of chars.  *)
(***************************************************************************)
\* chars[a..b] panics when a > b or b > chars.len().
slice_panics(chars, a, b) == a > b \/ b > Len(chars)

\* chars[a..b]
slice(chars, a, b) == SubSeq(chars, a + 1, b)

Span(t, hl) == [text |-> t, highlighted |-> hl]

\* The body of the loop over the indices in palette.rs.
render_step_palette(chars, idx, st) ==
    IF idx > st.last_end /\ slice_panics(chars, st.last_end, idx)
    THEN [st EXCEPT !.panicked = TRUE]
    ELSE LET before == IF idx > st.last_end
                       THEN Append(st.spans, Span(slice(chars, st.last_end, idx), FALSE))
                       ELSE st.spans
         IN  IF idx < Len(chars) /\ slice_panics(chars, idx, idx + 1)
             THEN [st EXCEPT !.panicked = TRUE]
             ELSE [spans |-> IF idx < Len(chars)
                             THEN Append(before, Span(slice(chars, idx, idx + 1), TRUE))
                             ELSE before,
                   last_end |-> idx + 1,
                   panicked |-> FALSE]

\* The body of the loop over the indices in helpers.rs.
render_step_helpers(chars, idx, st) ==
    IF idx >= Len(chars) THEN st
    ELSE IF idx > st.last_end /\ slice_panics(chars, st.last_end, idx)
    THEN [st EXCEPT !.panicked = TRUE]
    ELSE LET before == IF idx > st.last_end
                       THEN Append(st.spans, Span(slice(chars, st.last_end, idx), FALSE))
                       ELSE st.spans
         IN  IF slice_panics(chars, idx, idx + 1)
             THEN [st EXCEPT !.panicked = TRUE]
             ELSE [spans |-> Append(before, Span(slice(chars, idx, idx + 1), TRUE)),
                   last_end |-> idx + 1,
                   panicked |-> FALSE]

RECURSIVE render_loop(_, _, _, _, _)
render_loop(file, chars, idxs, k, st) ==
    IF st.panicked \/ k > Len(idxs) THEN st
    ELSE render_loop(file, chars, idxs, k + 1,
                     IF file = "palette" THEN render_step_palette(chars, idxs[k], st)
                     ELSE render_step_helpers(chars, idxs[k], st))

\* render_highlighted_text(text_str, indices, _) of palette.rs or helpers.rs.
render_highlighted_text(file, t, idxs) ==
    IF idxs = <<>> THEN [kind |-> "Plain", text |-> t]
    ELSE LET st == render_loop(file, t, idxs, 1,
                               [spans |-> <<>>, last_end |-> 0, panicked |-> FALSE])
         IN  IF st.panicked THEN [kind |-> "Panic"]
             ELSE [kind |-> "Rich",
                   spans |-> IF st.last_end < Len(t)
                             THEN Append(st.spans, Span(slice(t, st.last_end, Len(t)), FALSE))
                             ELSE st.spans]

\* Any list of indices, in range or not, sorted or not.
IndexLists == UNION {[1..k -> 0..MaxIndexValue] : k \in 0..MaxIndices}

(***************************************************************************)
(* Specification of one call of render_highlighted_text, of either file.   *)
(***************************************************************************)
InitRender ==
    /\ pc = "call"
    /\ text_str \in Strings(MaxTargetLen)
    /\ indices \in IndexLists
    /\ rendered = NotCalled
    /\ MatcherIdle /\ FilterIdle /\ HelperIdle /\ NavIdle /\ ShortcutIdle
    /\ FindIdle /\ PaletteIdle

CallRenderPalette ==
    /\ pc = "call"
    /\ rendered' = render_highlighted_text("palette", text_str, indices)
    /\ pc' = "rendered_palette"
    /\ UNCHANGED <<text_str, indices, matcher_vars, filter_vars, helper_vars,
                   nav_vars, shortcut_vars, find_vars, palette_vars>>

CallRenderHelpers ==
    /\ pc = "call"
    /\ rendered' = render_highlighted_text("helpers", text_str, indices)
    /\ pc' = "rendered_helpers"
    /\ UNCHANGED <<text_str, indices, matcher_vars, filter_vars, helper_vars,
                   nav_vars, shortcut_vars, find_vars, palette_vars>>

NextRender == CallRenderPalette \/ CallRenderHelpers

SpecRender == InitRender /\ [][NextRender]_vars

(***************************************************************************)
(* navigate_up and navigate_down (subscription.rs), on usize.  A           *)
(* subtraction below zero is the outcome [kind |-> "Underflow"] (a panic   *)
(* in a debug build, a wrap in a release build).  current_index + 1 is     *)
(* taken only below item_count - 1 and cannot overflow.                    *)
(***************************************************************************)
Usize(x) == [kind |-> "Ok", value |-> x]

usize_sub(a, b) == IF a >= b THEN Usize(a - b) ELSE [kind |-> "Underflow"]

navigate_up(current, count) ==
    IF current = 0
    THEN IF count > 0 THEN usize_sub(count, 1) ELSE Usize(0)
    ELSE usize_sub(current, 1)

\* Mutant: the wrap to the first row comes one row too late.
navigate_down_wraps_late(current, count) ==
    IF count = 0 THEN Usize(0)
    ELSE LET last == usize_sub(count, 1)
         IN  IF last.kind # "Ok" THEN last
             ELSE IF current > last.value THEN Usize(0)
             ELSE Usize(current + 1)

navigate_down(current, count) ==
    IF count = 0 THEN Usize(0)
    ELSE LET last == usize_sub(count, 1)
         IN  IF last.kind # "Ok" THEN last
             ELSE IF current >= last.value THEN Usize(0)
             ELSE Usize(current + 1)

(***************************************************************************)
(* Specification of one call of navigate_up or of navigate_down.           *)
(***************************************************************************)
InitNav ==
    /\ pc = "call"
    /\ current_index \in 0..MaxCurrentIndex
    /\ item_count \in 0..MaxItemCount
    /\ nav_result = NotCalled
    /\ MatcherIdle /\ FilterIdle /\ HelperIdle /\ RenderIdle /\ ShortcutIdle
    /\ FindIdle /\ PaletteIdle

CallNavigateUp ==
    /\ pc = "call"
    /\ nav_result' = navigate_up(current_index, item_count)
    /\ pc' = "navigated_up"
    /\ UNCHANGED <<current_index, item_count, matcher_vars, filter_vars,
                   helper_vars, render_vars, shortcut_vars, find_vars,
                   palette_vars>>

CallNavigateDown ==
    /\ pc = "call"
    /\ nav_result' = navigate_down(current_index, item_count)
    /\ pc' = "navigated_down"
    /\ UNCHANGED <<current_index, item_count, matcher_vars, filter_vars,
                   helper_vars, render_vars, shortcut_vars, find_vars,
                   palette_vars>>

NextNav == CallNavigateUp \/ CallNavigateDown

SpecNav == InitNav /\ [][NextNav]_vars

(***************************************************************************)
(* collect_shortcuts (subscription.rs).  Of a Command it reads id,         *)
(* shortcut and action; a Shortcut is its key and its modifiers.           *)
(***************************************************************************)
Character(c) == [kind |-> "Character", text |-> <<c>>]

Named(n) == [kind |-> "Named", name |-> n]

ShortcutCmd(c) == [key |-> Character(c), modifiers |-> "COMMAND"]

Message == [kind |-> "Message"]

Submenu(subcmds) == [kind |-> "Submenu", commands |-> subcmds]

MenuCommand(i, s, a) == [id |-> i, shortcut |-> s, action |-> a]

RECURSIVE collect_shortcuts_children_first(_)
\* Mutant: a command's own entry follows the entries of its submenu.
collect_shortcuts_children_first(cmds) ==
    IF cmds = <<>> THEN <<>>
    ELSE LET cmd == Head(cmds)
             own == IF cmd.shortcut # None
                    THEN << <<cmd.id, cmd.shortcut[1]>> >>
                    ELSE <<>>
             sub == IF cmd.action.kind = "Submenu"
                    THEN collect_shortcuts_children_first(cmd.action.commands)
                    ELSE <<>>
         IN  sub \o own \o collect_shortcuts_children_first(Tail(cmds))

RECURSIVE collect_shortcuts(_)
collect_shortcuts(cmds) ==
    IF cmds = <<>> THEN <<>>
    ELSE LET cmd == Head(cmds)
             own == IF cmd.shortcut # None
                    THEN << <<cmd.id, cmd.shortcut[1]>> >>
                    ELSE <<>>
             sub == IF cmd.action.kind = "Submenu"
                    THEN collect_shortcuts(cmd.action.commands)
                    ELSE <<>>
         IN  own \o sub \o collect_shortcuts(Tail(cmds))

\* Commands with a message action, with and without a shortcut.
LeafCommands ==
    {MenuCommand(i, s, Message) :
        i \in {"cmd1", "cmd2"},
        s \in {None, Some(ShortcutCmd("n")), Some(ShortcutCmd("t"))}}

InnerSubmenu(s) ==
    MenuCommand("inner", s,
                Submenu(<<MenuCommand("deep", Some(ShortcutCmd("n")), Message)>>))

\* The command lists of the submenus, one of them holding a submenu itself.
SubmenuLists ==
    {<<>>,
     <<MenuCommand("sub1", Some(ShortcutCmd("s")), Message)>>,
     <<MenuCommand("sub2", None, Message),
       MenuCommand("sub1", Some(ShortcutCmd("s")), Message)>>,
     <<InnerSubmenu(Some(ShortcutCmd("t"))),
       MenuCommand("sub1", Some(ShortcutCmd("s")), Message)>>,
     <<InnerSubmenu(None)>>}

SubmenuCommands ==
    {MenuCommand("submenu", s, Submenu(c)) :
        s \in {None, Some(ShortcutCmd("s"))}, c \in SubmenuLists}

MenuPool == LeafCommands \cup SubmenuCommands

MenuLists(n) == UNION {[1..k -> MenuPool] : k \in 0..n}

(***************************************************************************)
(* Specification of one call of collect_shortcuts.                         *)
(***************************************************************************)
InitShortcuts ==
    /\ pc = "call"
    /\ menu \in MenuLists(MaxMenuCommands)
    /\ collected = NotCalled
    /\ MatcherIdle /\ FilterIdle /\ HelperIdle /\ RenderIdle /\ NavIdle
    /\ FindIdle /\ PaletteIdle

CallCollectShortcuts ==
    /\ pc = "call"
    /\ collected' = [kind |-> "Ok", entries |-> collect_shortcuts(menu)]
    /\ pc' = "collected"
    /\ UNCHANGED <<menu, matcher_vars, filter_vars, helper_vars, render_vars,
                   nav_vars, find_vars, palette_vars>>

NextShortcuts == CallCollectShortcuts

SpecShortcuts == InitShortcuts /\ [][NextShortcuts]_vars

(***************************************************************************)
(* Shortcut::matches (command.rs) and find_matching_shortcut               *)
(* (subscription.rs).                                                      *)
(***************************************************************************)
Shortcut_matches(shortcut, k, mods) ==
    LET key_matches ==
            IF shortcut.key.kind = "Character" /\ k.kind = "Character"
            THEN to_lowercase(shortcut.key.text) = to_lowercase(k.text)
            ELSE shortcut.key = k
    IN  key_matches /\ shortcut.modifiers = mods

RECURSIVE find_matching_shortcut_siblings_first(_, _, _)
\* Mutant: the later siblings are searched before the submenu.
find_matching_shortcut_siblings_first(cmds, k, mods) ==
    IF cmds = <<>> THEN None
    ELSE LET cmd == Head(cmds)
         IN  IF cmd.shortcut # None /\ Shortcut_matches(cmd.shortcut[1], k, mods)
             THEN Some(cmd.id)
             ELSE LET rest == find_matching_shortcut_siblings_first(
                                  Tail(cmds), k, mods)
                  IN  IF rest # None THEN rest
                      ELSE IF cmd.action.kind = "Submenu"
                      THEN find_matching_shortcut_siblings_first(
                               cmd.action.commands, k, mods)
                      ELSE None

RECURSIVE find_matching_shortcut(_, _, _)
find_matching_shortcut(cmds, k, mods) ==
    IF cmds = <<>> THEN None
    ELSE LET cmd == Head(cmds)
         IN  IF cmd.shortcut # None /\ Shortcut_matches(cmd.shortcut[1], k, mods)
             THEN Some(cmd.id)
             ELSE LET sub == IF cmd.action.kind = "Submenu"
                             THEN find_matching_shortcut(
                                      cmd.action.commands, k, mods)
                             ELSE None
                  IN  IF sub # None THEN sub
                      ELSE find_matching_shortcut(Tail(cmds), k, mods)

\* The key presses: characters in either case, a named key, two modifier sets.
PressedKeys ==
    {Character("n"), Character("s"), Character("S"), Character("t"),
     Named("Space")}

PressedModifiers == {"COMMAND", "ALT"}

(***************************************************************************)
(* Specification of one call of find_matching_shortcut.                    *)
(***************************************************************************)
InitFind ==
    /\ pc = "call"
    /\ menu \in MenuLists(MaxMenuCommands)
    /\ collected = NotCalled
    /\ key \in PressedKeys
    /\ modifiers \in PressedModifiers
    /\ matched = NotCalled
    /\ MatcherIdle /\ FilterIdle /\ HelperIdle /\ RenderIdle /\ NavIdle
    /\ PaletteIdle

CallFindMatchingShortcut ==
    /\ pc = "call"
    /\ matched' = [kind |-> "Ok",
                   value |-> find_matching_shortcut(menu, key, modifiers)]
    /\ pc' = "found"
    /\ UNCHANGED <<key, modifiers, matcher_vars, filter_vars, helper_vars,
                   render_vars, nav_vars, shortcut_vars, palette_vars>>

NextFind == CallFindMatchingShortcut

SpecFind == InitFind /\ [][NextFind]_vars

(***************************************************************************)
(* PaletteState (palette.rs): a record of open, query, selected_index and  *)
(* submenu_path, and its methods as functions from the state before to the *)
(* state after.  Neither subtraction of the two navigation methods can go  *)
(* below zero: item_count - 1 is taken for item_count # 0 and              *)
(* selected_index - 1 for selected_index # 0.                              *)
(***************************************************************************)
PaletteState_new ==
    [open |-> FALSE, query |-> <<>>, selected_index |-> 0,
     submenu_path |-> <<>>]

PaletteState_open(s) ==
    [open |-> TRUE, query |-> <<>>, selected_index |-> 0,
     submenu_path |-> <<>>]

\* Mutant: close keeps the query.
PaletteState_close_keeps_query(s) ==
    [open |-> FALSE, query |-> s.query, selected_index |-> 0,
     submenu_path |-> <<>>]

PaletteState_close(s) ==
    [open |-> FALSE, query |-> <<>>, selected_index |-> 0,
     submenu_path |-> <<>>]

\* Mutant: toggle always opens.
PaletteState_toggle_only_opens(s) == PaletteState_open(s)

PaletteState_toggle(s) ==
    IF s.open THEN PaletteState_close(s) ELSE PaletteState_open(s)

\* Mutant: set_query keeps the selection.
PaletteState_set_query_keeps_selection(s, q) == [s EXCEPT !.query = q]

PaletteState_set_query(s, q) ==
    [s EXCEPT !.query = q, !.selected_index = 0]

PaletteState_set_selected(s, index) ==
    [s EXCEPT !.selected_index = index]

PaletteState_navigate_up(s, count) ==
    IF count = 0 THEN s
    ELSE [s EXCEPT !.selected_index =
              IF s.selected_index = 0 THEN count - 1
              ELSE s.selected_index - 1]

PaletteState_navigate_down(s, count) ==
    IF count = 0 THEN s
    ELSE [s EXCEPT !.selected_index =
              IF s.selected_index >= count - 1 THEN 0
              ELSE s.selected_index + 1]

PaletteState_enter_submenu(s, submenu_id) ==
    [s EXCEPT !.submenu_path = Append(s.submenu_path, submenu_id),
              !.query = <<>>,
              !.selected_index = 0]

\* Mutant: go_back leaves every submenu at once.
PaletteState_go_back_to_root(s) ==
    IF s.submenu_path # <<>>
    THEN [s EXCEPT !.submenu_path = <<>>,
                   !.query = <<>>,
                   !.selected_index = 0]
    ELSE s

PaletteState_go_back(s) ==
    IF s.submenu_path # <<>>
    THEN [s EXCEPT !.submenu_path = SubSeq(s.submenu_path, 1,
                                           Len(s.submenu_path) - 1),
                   !.query = <<>>,
                   !.selected_index = 0]
    ELSE s

\* The queries typed into the palette and the ids of the submenus entered.
PaletteQueries == {<<>>, <<"a">>, <<"_">>}

SubmenuIds == {"submenu", "inner"}

(***************************************************************************)
(* Specification of a PaletteState under any sequence of its public        *)
(* methods, from PaletteState::new().  trace holds, for the last two       *)
(* calls, the method, its argument and the state it was called on;         *)
(* called_closed tells whether a method that edits the query, the          *)
(* selection or the submenu path was ever called on a closed palette.      *)
(***************************************************************************)
EditingMethods ==
    {"set_query", "set_selected", "navigate_up", "navigate_down",
     "enter_submenu"}

LastTwo(t) == IF Len(t) > 2 THEN Tail(t) ELSE t

Call(op, arg, after) ==
    /\ pc = "palette"
    /\ state' = after
    /\ trace' = LastTwo(Append(trace, [op |-> op, arg |-> arg, before |-> state]))
    /\ called_closed' = (called_closed \/ (~state.open /\ op \in EditingMethods))
    /\ UNCHANGED <<pc, matcher_vars, filter_vars, helper_vars, render_vars,
                   nav_vars, shortcut_vars, find_vars>>

InitPalette ==
    /\ pc = "palette"
    /\ state = PaletteState_new
    /\ trace = <<>>
    /\ called_closed = FALSE
    /\ MatcherIdle /\ FilterIdle /\ HelperIdle /\ RenderIdle /\ NavIdle
    /\ ShortcutIdle /\ FindIdle

StateOpen == Call("open", <<>>, PaletteState_open(state))

StateClose == Call("close", <<>>, PaletteState_close(state))

StateToggle == Call("toggle", <<>>, PaletteState_toggle(state))

StateSetQuery ==
    \E q \in PaletteQueries :
        Call("set_query", <<q>>, PaletteState_set_query(state, q))

StateSetSelected ==
    \E index \in 0..MaxRows :
        Call("set_selected", <<index>>, PaletteState_set_selected(state, index))

StateNavigateUp ==
    \E count \in 0..MaxRows :
        Call("navigate_up", <<count>>, PaletteState_navigate_up(state, count))

StateNavigateDown ==
    \E count \in 0..MaxRows :
        Call("navigate_down", <<count>>,
             PaletteState_navigate_down(state, count))

StateEnterSubmenu ==
    /\ Len(state.submenu_path) < MaxDepth
    /\ \E id \in SubmenuIds :
           Call("enter_submenu", <<id>>, PaletteState_enter_submenu(state, id))

StateGoBack == Call("go_back", <<>>, PaletteState_go_back(state))

NextPalette ==
    \/ StateOpen
    \/ StateClose
    \/ StateToggle
    \/ StateSetQuery
    \/ StateSetSelected
    \/ StateNavigateUp
    \/ StateNavigateDown
    \/ StateEnterSubmenu
    \/ StateGoBack

SpecPalette == InitPalette /\ [][NextPalette]_vars

(***************************************************************************)
(* Specification of a PaletteState driven over a fixed command list: every *)
(* navigation is given get_filtered_count of the state's query, and        *)
(* set_selected is not called.  A panic of get_filtered_count ends the     *)
(* run before the navigation method is reached.                            *)
(***************************************************************************)
ListedCommandPool == {c \in PlainCommandPool : c.description = None}

ListedCommandLists(n) == UNION {[1..k -> ListedCommandPool] : k \in 0..n}

Update(after) ==
    /\ pc = "palette"
    /\ state' = after
    /\ UNCHANGED <<pc, trace, called_closed, matcher_vars, filter_vars,
                   helper_vars, render_vars, nav_vars, shortcut_vars,
                   find_vars>>

Panicked ==
    /\ pc = "palette"
    /\ pc' = "panicked"
    /\ UNCHANGED <<palette_vars, matcher_vars, filter_vars, helper_vars,
                   render_vars, nav_vars, shortcut_vars, find_vars>>

InitListed ==
    /\ pc = "palette"
    /\ commands \in ListedCommandLists(MaxCommands)
    /\ query = <<>>
    /\ filtered = NotCalled
    /\ MatcherIdle /\ HelperIdle /\ RenderIdle /\ NavIdle /\ ShortcutIdle
    /\ FindIdle /\ PaletteIdle

ListedOpen == Update(PaletteState_open(state))

ListedClose == Update(PaletteState_close(state))

ListedToggle == Update(PaletteState_toggle(state))

ListedSetQuery ==
    \E q \in PaletteQueries : Update(PaletteState_set_query(state, q))

ListedEnterSubmenu ==
    /\ Len(state.submenu_path) < MaxDepth
    /\ \E id \in SubmenuIds : Update(PaletteState_enter_submenu(state, id))

ListedGoBack == Update(PaletteState_go_back(state))

ListedNavigateUp ==
    LET count == get_filtered_count(state.query, commands)
    IN  IF count.kind = "Panic" THEN Panicked
        ELSE Update(PaletteState_navigate_up(state, count.value))

ListedNavigateDown ==
    LET count == get_filtered_count(state.query, commands)
    IN  IF count.kind = "Panic" THEN Panicked
        ELSE Update(PaletteState_navigate_down(state, count.value))

NextListed ==
    \/ ListedOpen
    \/ ListedClose
    \/ ListedToggle
    \/ ListedSetQuery
    \/ ListedEnterSubmenu
    \/ ListedGoBack
    \/ ListedNavigateUp
    \/ ListedNavigateDown

SpecListed == InitListed /\ [][NextListed]_vars

(***************************************************************************)
(* Vocabulary of the properties of fuzzy_match.                            *)
(***************************************************************************)
Done == pc = "done"

\* The k-th smallest element of a finite set of integers.
KthSmallest(S, k) == CHOOSE x \in S : Cardinality({y \in S : y < x}) = k - 1

\* p occurs, in order, as a subsequence of t: some strictly increasing choice
\* of Len(p) positions of t reads p.
IsSubsequence(p, t) ==
    \E S \in SUBSET (1..Len(t)) :
        /\ Cardinality(S) = Len(p)
        /\ \A k \in 1..Len(p) : t[KthSmallest(S, k)] = p[k]

StrictlyIncreasing(seq) == \A k \in 1..(Len(seq) - 1) : seq[k] < seq[k + 1]

\* The word-boundary rule as the specification words it, on the original text.
BoundaryRule(t, i) ==
    \/ i = 0
    \/ t[i] \in {"_", "-", " ", "/", "\\", "."}
    \/ t[i] \in {"a", "i"} /\ t[i + 1] \in {"A", "U0130"}

RECURSIVE SumOver(_, _)
SumOver(f, n) == IF n = 0 THEN 0 ELSE f[n] + SumOver(f, n - 1)

\* The score the scoring rules give to the matched positions idx of text t.
RuleScore(t, idx) ==
    LET term == [k \in 1..Len(idx) |->
                   (IF idx[k] = 0 THEN 8 ELSE 0)
                 + (IF BoundaryRule(t, idx[k]) THEN 10 ELSE 0)
                 + (IF k = 1 THEN 0
                    ELSE IF idx[k] = idx[k - 1] + 1 THEN 5
                    ELSE 0 - (idx[k] - idx[k - 1] - 1))]
    IN  10 + SumOver(term, Len(idx))

\* The strings that differ from s only in the case of their characters: the
\* strings of Len(s) characters whose lowercase folding is that of s.
RECURSIVE CaseVariants(_)
CaseVariants(s) ==
    IF s = <<>> THEN {<<>>}
    ELSE {<<c>> \o v :
            c \in {d \in Alphabet : char_to_lowercase(d) = char_to_lowercase(Head(s))},
            v \in CaseVariants(Tail(s))}

\* A match at the contiguous positions 0..k-1.
IsPrefixMatch(r) ==
    /\ r.kind = "Some"
    /\ r.indices # <<>>
    /\ \A k \in 1..Len(r.indices) : r.indices[k] = k - 1

\* A match with at least one gap between consecutive matched positions.
IsScatteredMatch(r) ==
    /\ r.kind = "Some"
    /\ \E k \in 2..Len(r.indices) : r.indices[k] > r.indices[k - 1] + 1

\* <<pattern length, score>> of every scattered match within the bounds.
ScatteredScores ==
    {<<Len(x[1]), fuzzy_match(x[1], x[2]).score>> :
        x \in {y \in Strings(MaxPatternLen) \X Strings(MaxTargetLen) :
                 IsScatteredMatch(fuzzy_match(y[1], y[2]))}}

\* The same, of the scattered matches none of whose matched positions after
\* the first is a word boundary.
ScatteredScoresOffBoundary ==
    {<<Len(x[1]), fuzzy_match(x[1], x[2]).score>> :
        x \in {y \in Strings(MaxPatternLen) \X Strings(MaxTargetLen) :
                 LET r == fuzzy_match(y[1], y[2])
                 IN  /\ IsScatteredMatch(r)
                     /\ \A k \in 2..Len(r.indices) :
                            ~ BoundaryRule(y[2], r.indices[k])}}

(***************************************************************************)
(* C1: for a non-empty pattern, fuzzy_match returns Some exactly when the  *)
(* folded pattern is a subsequence of the folded text, and None otherwise. *)
(***************************************************************************)
C1_SomeIffSubsequence ==
    (Done /\ pattern # <<>>) =>
        IF IsSubsequence(to_lowercase(pattern), to_lowercase(target))
        THEN result.kind = "Some"
        ELSE result.kind = "None"

(***************************************************************************)
(* C2: for a non-empty pattern that is a subsequence of the text ignoring  *)
(* case, fuzzy_match returns Some with one index per character of the      *)
(* pattern, strictly increasing, each below the text's character count.    *)
(***************************************************************************)
C2_IndicesWellFormed ==
    (/\ Done
     /\ pattern # <<>>
     /\ IsSubsequence(to_lowercase(pattern), to_lowercase(target))) =>
        /\ result.kind = "Some"
        /\ Len(result.indices) = Len(pattern)
        /\ StrictlyIncreasing(result.indices)
        /\ \A k \in 1..Len(result.indices) : result.indices[k] < Len(target)

(***************************************************************************)
(* C3: the empty pattern matches every text, the empty text included, with *)
(* score 0 and no indices.                                                 *)
(***************************************************************************)
C3_EmptyPattern ==
    (Done /\ pattern = <<>>) =>
        result = [kind |-> "Some", score |-> 0, indices |-> <<>>]

C3_Witness == Done /\ pattern = <<>> /\ target = <<>> /\ result.kind = "Some"

(***************************************************************************)
(* C4: the score of a successful non-empty match is 10 plus, per matched   *)
(* position, 8 at position 0, 10 at a word boundary, and after the first   *)
(* position 5 when consecutive and minus the gap length otherwise.         *)
(***************************************************************************)
C4_ScoreFormula ==
    (Done /\ pattern # <<>> /\ result.kind = "Some") =>
        result.score = RuleScore(target, result.indices)

\* A separator boundary reached across a gap: 8 + 10, then 10 - 1, plus 10.
C4_Witness ==
    /\ Done
    /\ pattern = <<"a", "A">>
    /\ target = <<"A", "_", "a">>
    /\ result.kind = "Some"
    /\ result.indices = <<0, 2>>
    /\ result.score = 37

(***************************************************************************)
(* C5: the match is the greedy leftmost embedding: each reported index is  *)
(* the smallest position after the previous one whose folded character is  *)
(* the next folded pattern character.                                      *)
(***************************************************************************)
C5_GreedyLeftmost ==
    (Done /\ pattern # <<>> /\ result.kind = "Some") =>
        LET pl == to_lowercase(pattern)
            tl == to_lowercase(target)
            idx == result.indices
        IN  /\ Len(idx) = Len(pl)
            /\ \A k \in 1..Len(idx) :
                 LET from == IF k = 1 THEN 0 ELSE idx[k - 1] + 1
                 IN  /\ idx[k] >= from
                     /\ idx[k] < Len(tl)
                     /\ tl[idx[k] + 1] = pl[k]
                     /\ \A j \in from..(idx[k] - 1) : tl[j + 1] # pl[k]

\* The first "a" is taken (score 10) although the one at the camelCase
\* boundary would score 20.
C5_Witness ==
    /\ Done
    /\ pattern = <<"a">>
    /\ target = <<"U0307", "a", "A">>
    /\ result.kind = "Some"
    /\ result.indices = <<1>>
    /\ result.score = 10

(***************************************************************************)
(* C6: matching is case-insensitive: patterns with the same folding give   *)
(* the same outcome, and texts with the same folding and character count   *)
(* give the same verdict and the same indices.                             *)
(***************************************************************************)
C6_CaseInsensitive ==
    Done =>
        /\ \A p2 \in CaseVariants(pattern) : fuzzy_match(p2, target) = result
        /\ \A t2 \in CaseVariants(target) :
             LET r2 == fuzzy_match(pattern, t2)
             IN  /\ r2.kind = result.kind
                 /\ result.kind = "Some" => r2.indices = result.indices

\* A text variant whose score differs (the camelCase bonus, 43 against 33)
\* while its indices agree, and a pattern variant with the same outcome.
C6_Witness ==
    /\ Done
    /\ pattern = <<"A", "a">>
    /\ target = <<"a", "A">>
    /\ result = [kind |-> "Some", score |-> 43, indices |-> <<0, 1>>]
    /\ fuzzy_match(<<"a", "A">>, target) = result
    /\ fuzzy_match(pattern, <<"A", "a">>) =
           [kind |-> "Some", score |-> 33, indices |-> <<0, 1>>]

C8_NeverPanics == Done => result.kind # "Panic"

(***************************************************************************)
(* Vocabulary of the properties of filter_commands.                        *)
(***************************************************************************)
\* fuzzy_match succeeds on the name, the description or a keyword of cmd.
SomeFieldMatches(q, cmd) ==
    \/ fuzzy_match(q, cmd.name).kind = "Some"
    \/ cmd.description # None /\ fuzzy_match(q, cmd.description[1]).kind = "Some"
    \/ \E k \in 1..Len(cmd.keywords) : fuzzy_match(q, cmd.keywords[k]).kind = "Some"

\* The positions of the returned Vec that carry original index i.
PositionsOf(entries, i) == {k \in 1..Len(entries) : entries[k][1] = i}

(***************************************************************************)
(* C9: for the empty query filter_commands returns one entry per command,  *)
(* in original order, each with score 0 and no indices.                    *)
(***************************************************************************)
C9_EmptyQueryListsAll ==
    (Done /\ filtered # NotCalled /\ query = <<>>) =>
        /\ filtered.kind = "Ok"
        /\ Len(filtered.entries) = Len(commands)
        /\ \A i \in 1..Len(commands) :
             filtered.entries[i] = <<i - 1, [score |-> 0, indices |-> <<>>]>>

C9_Witness ==
    /\ Done
    /\ query = <<>>
    /\ Len(commands) = MaxCommands
    /\ commands[1].name = <<"U0130", "a">>
    /\ commands[1].name # commands[2].name
    /\ filtered.kind = "Ok"
    /\ Len(filtered.entries) = MaxCommands

(***************************************************************************)
(* C10: for a non-empty query filter_commands returns the original index   *)
(* of a command exactly when fuzzy_match succeeds on one of its fields,    *)
(* each such index once, every index below commands.len(), and at most     *)
(* commands.len() entries.                                                 *)
(***************************************************************************)
C10_RetainsExactlyMatching ==
    (Done /\ filtered # NotCalled /\ query # <<>>) =>
        /\ filtered.kind = "Ok"
        /\ \A i \in 0..(Len(commands) - 1) :
             IF SomeFieldMatches(query, commands[i + 1])
             THEN Cardinality(PositionsOf(filtered.entries, i)) = 1
             ELSE PositionsOf(filtered.entries, i) = {}
        /\ \A k \in 1..Len(filtered.entries) :
             filtered.entries[k][1] \in 0..(Len(commands) - 1)
        /\ Len(filtered.entries) <= Len(commands)

\* filter_commands has returned a Vec for a non-empty query.
Ranked == Done /\ filtered # NotCalled /\ filtered.kind = "Ok" /\ query # <<>>

\* The matches of the fields of cmd in the order name, description, keywords.
FieldMatches(q, cmd) ==
    LET fields == <<cmd.name>> \o cmd.description \o cmd.keywords
        hits == {k \in 1..Len(fields) : fuzzy_match(q, fields[k]).kind = "Some"}
    IN  [n \in 1..Cardinality(hits) |->
           FuzzyMatchOf(fuzzy_match(q, fields[KthSmallest(hits, n)]))]

MaxOf(S) == CHOOSE x \in S : \A y \in S : y <= x

(***************************************************************************)
(* C11: for a non-empty query the score of each returned entry is the      *)
(* maximum of the scores of the fields of its command that matched.        *)
(***************************************************************************)
C11_ScoreIsFieldMaximum ==
    Ranked =>
        \A k \in 1..Len(filtered.entries) :
            LET fm == FieldMatches(query, commands[filtered.entries[k][1] + 1])
            IN  /\ fm # <<>>
                /\ filtered.entries[k][2].score =
                       MaxOf({fm[n].score : n \in 1..Len(fm)})

\* The name matches with score 37 and a keyword with score 43.
C11_Witness ==
    /\ Ranked
    /\ query = <<"_", "a">>
    /\ Len(commands) = 1
    /\ commands[1].name = <<"_", "_", "a">>
    /\ commands[1].keywords # <<>>
    /\ fuzzy_match(query, commands[1].name).score = 37
    /\ filtered.entries[1][2].score = 43

(***************************************************************************)
(* C12: the returned entries are in non-increasing order of score.         *)
(***************************************************************************)
C12_SortedByScore ==
    (Done /\ filtered # NotCalled /\ filtered.kind = "Ok") =>
        \A k \in 1..(Len(filtered.entries) - 1) :
            filtered.entries[k][2].score >= filtered.entries[k + 1][2].score

\* The later command scores higher and is returned first.
C12_Witness ==
    /\ Ranked
    /\ Len(filtered.entries) = 2
    /\ filtered.entries[1][1] = 1
    /\ filtered.entries[2][1] = 0
    /\ filtered.entries[1][2].score > filtered.entries[2][2].score

(***************************************************************************)
(* C13: returned entries of equal score are in ascending order of their    *)
(* original index.                                                         *)
(***************************************************************************)
C13_StableOnTies ==
    (Done /\ filtered # NotCalled /\ filtered.kind = "Ok") =>
        \A k, l \in 1..Len(filtered.entries) :
            (k < l /\ filtered.entries[k][2].score = filtered.entries[l][2].score)
                => filtered.entries[k][1] < filtered.entries[l][1]

\* Two commands tie on the score with different matches.
C13_Witness ==
    /\ Ranked
    /\ Len(filtered.entries) = 2
    /\ filtered.entries[1][2].score = filtered.entries[2][2].score
    /\ filtered.entries[1][2].indices # filtered.entries[2][2].indices
    /\ filtered.entries[1][1] = 0

(***************************************************************************)
(* C19: the indices of every returned entry are character positions of the *)
(* command's name, the text they highlight: they are the matched positions *)
(* of the query in the name, all below the name's character count.         *)
(***************************************************************************)
C19_IndicesAgainstName ==
    Ranked =>
        \A k \in 1..Len(filtered.entries) :
            LET name == commands[filtered.entries[k][1] + 1].name
                idx == filtered.entries[k][2].indices
            IN  /\ fuzzy_match(query, name).kind = "Some"
                /\ idx = fuzzy_match(query, name).indices
                /\ \A n \in 1..Len(idx) : idx[n] < Len(name)

(***************************************************************************)
(* C20: when several fields of a command tie on the maximal score, the     *)
(* returned match is that of the last tied field in the order name,        *)
(* description, keywords.                                                  *)
(***************************************************************************)
C20_LastTiedFieldWins ==
    Ranked =>
        \A k \in 1..Len(filtered.entries) :
            LET fm == FieldMatches(query, commands[filtered.entries[k][1] + 1])
                top == MaxOf({fm[n].score : n \in 1..Len(fm)})
                last == MaxOf({n \in 1..Len(fm) : fm[n].score = top})
            IN  filtered.entries[k][2] = fm[last]

\* Name and description tie at score 20; the description's match is returned.
C20_Witness ==
    /\ Ranked
    /\ query = <<"a">>
    /\ Len(commands) = 1
    /\ commands[1].name = <<"_", "a">>
    /\ commands[1].description = Some(<<"_", "_", "a">>)
    /\ commands[1].keywords = <<>>
    /\ fuzzy_match(query, commands[1].name).score = 20
    /\ filtered.entries[1][2] = [score |-> 20, indices |-> <<2>>]

(***************************************************************************)
(* C14: get_filtered_command_index returns Some(k) exactly for a display   *)
(* index below get_filtered_count, k being the original index of that      *)
(* entry of filter_commands, and None for any other display index.         *)
(***************************************************************************)
C14_IndexOfDisplayRow ==
    (index_result # NotCalled /\ count_result # NotCalled) =>
        /\ (index_result.kind = "Panic") <=> (count_result.kind = "Panic")
        /\ index_result.kind = "Ok" =>
             IF selected_display_index < count_result.value
             THEN LET k == filter_commands(query, commands)
                               .entries[selected_display_index + 1][1]
                  IN  index_result.value = Some(k) /\ k < Len(commands)
             ELSE index_result.value = None

\* Display row 0 shows the command of original index 1.
C14_Witness ==
    /\ index_result # NotCalled
    /\ count_result = [kind |-> "Ok", value |-> 2]
    /\ selected_display_index = 0
    /\ index_result = [kind |-> "Ok", value |-> Some(1)]

(***************************************************************************)
(* C15: render_highlighted_text, of palette.rs and of helpers.rs, never    *)
(* faults: an index out of the range of the text is skipped.               *)
(***************************************************************************)
C15_RenderNeverFaults ==
    pc \in {"rendered_palette", "rendered_helpers"} => rendered.kind # "Panic"

(***************************************************************************)
(* C16: navigate_up(current, n) is 0 when n = 0, whatever current is, and  *)
(* for n > 0 it is n - 1 when current = 0 and current - 1 otherwise; it    *)
(* never underflows.                                                       *)
(***************************************************************************)
C16_NavigateUp ==
    pc = "navigated_up" =>
        /\ nav_result.kind = "Ok"
        /\ nav_result.value =
               IF item_count = 0 THEN 0
               ELSE IF current_index = 0 THEN item_count - 1
               ELSE current_index - 1

(***************************************************************************)
(* C17: navigate_down(current, n) is 0 when n = 0, and for n > 0 it is 0   *)
(* when current >= n - 1 and current + 1 otherwise, so that it is below n  *)
(* whatever current is.                                                    *)
(***************************************************************************)
C17_NavigateDown ==
    pc = "navigated_down" =>
        /\ nav_result.kind = "Ok"
        /\ nav_result.value =
               IF item_count = 0 THEN 0
               ELSE IF current_index >= item_count - 1 THEN 0
               ELSE current_index + 1
        /\ item_count > 0 => nav_result.value < item_count

\* A cursor beyond the list wraps to the first row.
C17_Witness ==
    /\ pc = "navigated_down"
    /\ item_count = 3
    /\ current_index = 5
    /\ nav_result = [kind |-> "Ok", value |-> 0]

(***************************************************************************)
(* Vocabulary of C18.  A path names a command of the tree by the 1-based   *)
(* positions leading to it; pre-order puts a path after its proper         *)
(* prefixes and otherwise orders paths by the first position they differ   *)
(* in.                                                                     *)
(***************************************************************************)
RECURSIVE Paths(_)
Paths(cmds) ==
    UNION {{<<i>>} \cup
           (IF cmds[i].action.kind = "Submenu"
            THEN {<<i>> \o q : q \in Paths(cmds[i].action.commands)}
            ELSE {}) : i \in 1..Len(cmds)}

RECURSIVE NodeAt(_, _)
NodeAt(cmds, p) ==
    IF Len(p) = 1 THEN cmds[p[1]]
    ELSE NodeAt(cmds[p[1]].action.commands, Tail(p))

PreOrderBefore(p, q) ==
    \E k \in 0..Len(p) :
        /\ k <= Len(q)
        /\ SubSeq(p, 1, k) = SubSeq(q, 1, k)
        /\ \/ k = Len(p) /\ k < Len(q)
           \/ k < Len(p) /\ k < Len(q) /\ p[k + 1] < q[k + 1]

PathsWithShortcut(cmds) ==
    {p \in Paths(cmds) : NodeAt(cmds, p).shortcut # None}

(***************************************************************************)
(* C18: collect_shortcuts returns exactly one (id, shortcut) entry for     *)
(* every command with a shortcut, at any submenu depth, in depth-first     *)
(* pre-order: the entry of a command stands at the position given by the   *)
(* number of commands with a shortcut before it in pre-order.              *)
(***************************************************************************)
C18_CollectsPreOrder ==
    pc = "collected" =>
        LET with == PathsWithShortcut(menu)
        IN  /\ collected.kind = "Ok"
            /\ Len(collected.entries) = Cardinality(with)
            /\ \A p \in with :
                   collected.entries[
                       1 + Cardinality({q \in with : PreOrderBefore(q, p)})]
                     = <<NodeAt(menu, p).id, NodeAt(menu, p).shortcut[1]>>

\* A submenu with a shortcut, holding a submenu and a command, before a
\* later sibling.
C18_Witness ==
    /\ pc = "collected"
    /\ Len(menu) = 2
    /\ menu[1].action.kind = "Submenu"
    /\ collected.entries =
           << <<"submenu", ShortcutCmd("s")>>,
              <<"inner", ShortcutCmd("t")>>,
              <<"deep", ShortcutCmd("n")>>,
              <<"sub1", ShortcutCmd("s")>>,
              <<"cmd1", ShortcutCmd("n")>> >>

(***************************************************************************)
(* Vocabulary of the properties of PaletteState: the last call recorded    *)
(* in trace and the state it was made on.                                  *)
(***************************************************************************)
Last == trace[Len(trace)]

LastWas(op) == trace # <<>> /\ Last.op = op

OthersKept(fields) ==
    \A f \in {"open", "query", "selected_index", "submenu_path"} \ fields :
        state[f] = Last.before[f]

(***************************************************************************)
(* C21: PaletteState::navigate_up(n) and PaletteState::navigate_down(n)    *)
(* set selected_index to what subscription::navigate_up(selected_index, n) *)
(* and subscription::navigate_down(selected_index, n) return, for every    *)
(* selected_index and every n, n = 0 included, and leave open, query and   *)
(* submenu_path unchanged.                                                 *)
(***************************************************************************)
C21_MethodsRefineFunctions ==
    /\ LastWas("navigate_up") =>
           /\ navigate_up(Last.before.selected_index, Last.arg[1])
                = Usize(state.selected_index)
           /\ OthersKept({"selected_index"})
    /\ LastWas("navigate_down") =>
           /\ navigate_down(Last.before.selected_index, Last.arg[1])
                = Usize(state.selected_index)
           /\ OthersKept({"selected_index"})

\* The state with the given open flag and everything else reset.
ResetState(flag) ==
    [open |-> flag, query |-> <<>>, selected_index |-> 0,
     submenu_path |-> <<>>]

LastTwoWere(op1, op2) ==
    Len(trace) = 2 /\ trace[1].op = op1 /\ trace[2].op = op2

(***************************************************************************)
(* C22: from any PaletteState open() gives open = TRUE, close() gives      *)
(* open = FALSE and toggle() negates open; after each of them query is     *)
(* empty, selected_index is 0 and submenu_path is empty; two toggles in a  *)
(* row restore the open flag.                                              *)
(***************************************************************************)
C22_OpenCloseToggle ==
    /\ LastWas("open") => state = ResetState(TRUE)
    /\ LastWas("close") => state = ResetState(FALSE)
    /\ LastWas("toggle") => state = ResetState(~Last.before.open)
    /\ LastTwoWere("toggle", "toggle") => state.open = trace[1].before.open

\* Two toggles of an open palette that had a query, a selection and a
\* submenu: open again, and reset.
C22_Witness ==
    /\ LastTwoWere("toggle", "toggle")
    /\ trace[1].before = [open |-> TRUE, query |-> <<"a">>,
                          selected_index |-> 1, submenu_path |-> <<"submenu">>]
    /\ state = ResetState(TRUE)

(***************************************************************************)
(* C23: go_back() on an empty submenu_path leaves the whole state          *)
(* unchanged; on a non-empty one it removes the last submenu id, clears    *)
(* the query and resets selected_index.  enter_submenu(id) appends id,     *)
(* clears the query and resets selected_index, so that enter_submenu then  *)
(* go_back restores submenu_path.                                          *)
(***************************************************************************)
C23_EnterAndGoBack ==
    /\ (LastWas("go_back") /\ Last.before.submenu_path = <<>>) =>
           state = Last.before
    /\ (LastWas("go_back") /\ Last.before.submenu_path # <<>>) =>
           /\ Len(state.submenu_path) = Len(Last.before.submenu_path) - 1
           /\ \A k \in 1..Len(state.submenu_path) :
                  state.submenu_path[k] = Last.before.submenu_path[k]
           /\ state.query = <<>>
           /\ state.selected_index = 0
           /\ state.open = Last.before.open
    /\ LastWas("enter_submenu") =>
           /\ state.submenu_path =
                  Last.before.submenu_path \o <<Last.arg[1]>>
           /\ state.query = <<>>
           /\ state.selected_index = 0
           /\ state.open = Last.before.open
    /\ LastTwoWere("enter_submenu", "go_back") =>
           state.submenu_path = trace[1].before.submenu_path

\* A second submenu entered, then left: the first one is still entered.
C23_Witness ==
    /\ LastTwoWere("enter_submenu", "go_back")
    /\ trace[1].before.submenu_path = <<"submenu">>
    /\ trace[1].arg = <<"inner">>
    /\ trace[2].before.submenu_path = <<"submenu", "inner">>
    /\ state.submenu_path = <<"submenu">>

FullyReset ==
    state.query = <<>> /\ state.selected_index = 0 /\ state.submenu_path = <<>>

(***************************************************************************)
(* C25: in every state reachable from PaletteState::new() through its      *)
(* public methods, a closed palette is fully reset: query empty,           *)
(* selected_index 0, submenu_path empty.                                   *)
(***************************************************************************)
C25_ClosedIsReset == ~state.open => FullyReset

(***************************************************************************)
(* C25, amended: the same, in the states reached by calls in which         *)
(* set_query, set_selected, navigate_up, navigate_down and enter_submenu   *)
(* are made on an open palette only.                                       *)
(***************************************************************************)
C25_ClosedIsResetIfEditedOpen ==
    (~called_closed /\ ~state.open) => FullyReset

\* An open palette with a query, a selection and a submenu, closed.
C25_Witness ==
    /\ ~called_closed
    /\ LastWas("close")
    /\ Last.before = [open |-> TRUE, query |-> <<"_">>, selected_index |-> 2,
                      submenu_path |-> <<"inner">>]
    /\ ~state.open
    /\ FullyReset

(***************************************************************************)
(* C24: from PaletteState::new(), under open, close, toggle, set_query,    *)
(* enter_submenu, go_back and navigations that are given the number of     *)
(* commands filter_commands returns for the current query,                 *)
(* selected_index is a valid display row: below that number when it is     *)
(* positive, and 0 when it is 0.                                           *)
(***************************************************************************)
C24_SelectionIsDisplayRow ==
    LET count == get_filtered_count(state.query, commands)
    IN  count.kind = "Ok" =>
            IF count.value > 0 THEN state.selected_index < count.value
            ELSE state.selected_index = 0

\* The second of two listed commands selected, inside a submenu.
C24_Witness ==
    /\ state.open
    /\ state.query = <<"_">>
    /\ state.submenu_path = <<"submenu">>
    /\ get_filtered_count(state.query, commands) = [kind |-> "Ok", value |-> 2]
    /\ state.selected_index = 1

\* The positions of the entries of collect_shortcuts(commands) whose shortcut
\* matches the key press.
MatchingEntries(cmds, k, mods) ==
    LET entries == collect_shortcuts(cmds)
    IN  {n \in 1..Len(entries) : Shortcut_matches(entries[n][2], k, mods)}

(***************************************************************************)
(* C26: find_matching_shortcut(commands, key, modifiers) returns the id of *)
(* the first entry of collect_shortcuts(commands) whose shortcut matches   *)
(* the key press, and None exactly when no entry matches.                  *)
(***************************************************************************)
C26_FirstCollectedMatch ==
    pc = "found" =>
        LET entries == collect_shortcuts(menu)
            hits == MatchingEntries(menu, key, modifiers)
        IN  /\ matched.kind = "Ok"
            /\ (matched.value = None) <=> (hits = {})
            /\ hits # {} =>
                   \E n \in hits :
                       /\ \A m \in hits : n <= m
                       /\ matched.value = Some(entries[n][1])

\* A submenu's own shortcut, pressed in upper case, wins over the same
\* shortcut of one of its children.
C26_Witness ==
    /\ pc = "found"
    /\ key = Character("S")
    /\ modifiers = "COMMAND"
    /\ Len(menu) = 2
    /\ menu[1].shortcut = Some(ShortcutCmd("s"))
    /\ menu[1].action.kind = "Submenu"
    /\ Len(menu[1].action.commands) = 2
    /\ MatchingEntries(menu, key, modifiers) = {1, 4}
    /\ matched = [kind |-> "Ok", value |-> Some("submenu")]

====
